---- MODULE Spec2Model ----
(***************************************************************************)
(* Model of the animal-shelter pipeline: the cleaning stage                *)
(* (src/src/clean_animals.py), the Analyzer (src/src/analysis_model.py)    *)
(* and the Visualizer (src/src/visualization.py).                          *)
(*                                                                         *)
(* A table is [cols |-> set of column names, rows |-> sequence of rows];   *)
(* a row is a record of cells; a cell is a tagged value (below).  A text   *)
(* is a sequence of one-character strings.  Hangul syllables of the        *)
(* examples are written with ASCII stand-ins, one text per word:           *)
(*   "g" = dog, "mix" = mixed breed, "Seoul" / "Gng" = the province and    *)
(*   the district of the region example, "yb" = the birth-year suffix.     *)
(***************************************************************************)
EXTENDS Integers, Sequences, FiniteSets, TLC

(***************************************************************************)
(* Cell values.  None is Python's None, NaN is float nan / NaT: both are   *)
(* "missing" for pandas (isna), and they differ only in how astype(str)    *)
(* renders them.                                                           *)
(***************************************************************************)
None == [t |-> "None"]
NaN == [t |-> "NaN"]
Str(s) == [t |-> "str", s |-> s]
Dec(n, e) == [t |-> "num", n |-> n, e |-> e]      \* the number n / 10^e
Num(n) == Dec(n, 0)
Date(y, m, d) == [t |-> "date", y |-> y, m |-> m, d |-> d]
Dict(kv) == [t |-> "dict", kv |-> kv]

isna(v) == v.t \in {"None", "NaN"}
notna(v) == ~isna(v)
isstr(v) == v.t = "str"

\* Two cells hold the same value, every missing marker counting as one.
Same(a, b) == (isna(a) /\ isna(b)) \/ a = b

Digits == <<"0", "1", "2", "3", "4", "5", "6", "7", "8", "9">>
IsDigit(c) == \E i \in 1..10 : Digits[i] = c
DigitVal(c) == (CHOOSE i \in 1..10 : Digits[i] = c) - 1
IsSpace(c) == c = " "

MinOf(S) == CHOOSE x \in S : \A y \in S : x <= y

\* The first index >= i of s holding c, or 0.
FirstAt(s, c, i) ==
    LET I == {j \in i..Len(s) : s[j] = c}
    IN IF I = {} THEN 0 ELSE MinOf(I)

\* The first index >= i of s that holds no whitespace, or Len(s) + 1.
SkipSpaces(s, i) ==
    LET I == {j \in i..Len(s) : ~IsSpace(s[j])}
    IN IF I = {} THEN Len(s) + 1 ELSE MinOf(I)

\* The first index >= i of s that holds whitespace, or Len(s) + 1.
SkipToken(s, i) ==
    LET I == {j \in i..Len(s) : IsSpace(s[j])}
    IN IF I = {} THEN Len(s) + 1 ELSE MinOf(I)

\* The value of a sequence of decimal digits (0 for the empty one).
RECURSIVE IntOf(_)
IntOf(ds) ==
    IF ds = <<>> THEN 0
    ELSE 10 * IntOf(SubSeq(ds, 1, Len(ds) - 1)) + DigitVal(ds[Len(ds)])

AllDigits(s) == \A i \in 1..Len(s) : IsDigit(s[i])

\* re: open (.*?) close -- the leftmost opener and the first closer after it.
\* <<0, 0>> when the pattern matches nowhere.
MatchDelimited(s, open, close) ==
    LET o == FirstAt(s, open, 1)
        c == IF o = 0 THEN 0 ELSE FirstAt(s, close, o + 1)
    IN IF c = 0 THEN <<0, 0>> ELSE <<o, c>>

\* Series.str.replace(r"<open>.*?<close>", "", regex=True), and with eatSpace
\* the pattern r"<open>.*?<close>\s*": every non-overlapping match, left to
\* right, is removed.
RECURSIVE RemoveDelimited(_, _, _, _)
RemoveDelimited(s, open, close, eatSpace) ==
    LET m == MatchDelimited(s, open, close)
        after == IF eatSpace THEN SkipSpaces(s, m[2] + 1) ELSE m[2] + 1
    IN IF m[1] = 0 THEN s
       ELSE SubSeq(s, 1, m[1] - 1)
            \o RemoveDelimited(SubSeq(s, after, Len(s)), open, close, eatSpace)

\* str.split(): the maximal runs of non-whitespace, in order.
RECURSIVE Split(_)
Split(s) ==
    LET b == SkipSpaces(s, 1)
        e == SkipToken(s, b)
    IN IF b > Len(s) THEN <<>>
       ELSE <<SubSeq(s, b, e - 1)>> \o Split(SubSeq(s, e, Len(s)))

\* astype(str) of one cell: a text stays, None and nan are spelled out.
AsStr(v) ==
    CASE v.t = "str" -> v.s
      [] v.t = "None" -> <<"N", "o", "n", "e">>
      [] v.t = "NaN" -> <<"n", "a", "n">>

\* The text without its trailing "0" characters.
RECURSIVE StripZeros(_)
StripZeros(ds) ==
    IF ds # <<>> /\ ds[Len(ds)] = "0" THEN StripZeros(SubSeq(ds, 1, Len(ds) - 1))
    ELSE ds

\* pd.to_numeric(text, errors="coerce") on the texts the model draws: digits with
\* at most one "." and at least one digit parse to that decimal number, "nan"
\* and every text holding another character (a letter, a bracket, a second
\* ".") are coerced to NaN.
ParseNumber(s) ==
    LET dot == FirstAt(s, ".", 1)
        ip == IF dot = 0 THEN s ELSE SubSeq(s, 1, dot - 1)
        fp == IF dot = 0 THEN <<>> ELSE SubSeq(s, dot + 1, Len(s))
        fz == StripZeros(fp)
    IN IF AllDigits(ip) /\ AllDigits(fp) /\ Len(ip) + Len(fp) > 0
       THEN Dec(IntOf(ip \o fz), Len(fz))
       ELSE NaN

\* pd.to_numeric(cell, errors="coerce"): a number stays, a text is parsed,
\* a missing value is NaN.
to_numeric(v) ==
    CASE v.t = "num" -> v
      [] v.t = "str" -> ParseNumber(v.s)
      [] OTHER -> NaN

IsLeap(y) == (y % 4 = 0 /\ y % 100 # 0) \/ y % 400 = 0
DaysIn(y, m) ==
    IF m = 2 THEN (IF IsLeap(y) THEN 29 ELSE 28)
    ELSE IF m \in {4, 6, 9, 11} THEN 30 ELSE 31

\* The years a pandas Timestamp can hold in full (1677-09-21 .. 2262-04-11).
TimestampYears == 1678..2261

\* pd.to_datetime(text, format="%Y%m%d", errors="coerce") on the texts the model
\* draws (eight characters, or holding a character that is no digit): four
\* digits of year, two of month, two of day, a real calendar day; NaT otherwise.
ParseYmd(s) ==
    IF Len(s) = 8 /\ AllDigits(s)
    THEN LET y == IntOf(SubSeq(s, 1, 4))
             m == IntOf(SubSeq(s, 5, 6))
             d == IntOf(SubSeq(s, 7, 8))
         IN IF /\ y \in TimestampYears
               /\ m \in 1..12
               /\ d \in 1..DaysIn(y, m)
            THEN Date(y, m, d) ELSE NaN
    ELSE NaN

\* pd.to_datetime(cell, format="%Y%m%d", errors="coerce"): a datetime stays, a
\* text is parsed, a missing value is NaT.
to_datetime(v) ==
    CASE v.t = "date" -> v
      [] v.t = "str" -> ParseYmd(v.s)
      [] OTHER -> NaN

\* Series.dt.day_name(): the weekday of a calendar day (Sakamoto's rule).
DayNames ==
    << <<"S", "u", "n", "d", "a", "y">>,
       <<"M", "o", "n", "d", "a", "y">>,
       <<"T", "u", "e", "s", "d", "a", "y">>,
       <<"W", "e", "d", "n", "e", "s", "d", "a", "y">>,
       <<"T", "h", "u", "r", "s", "d", "a", "y">>,
       <<"F", "r", "i", "d", "a", "y">>,
       <<"S", "a", "t", "u", "r", "d", "a", "y">> >>
MonthOffset == <<0, 3, 2, 5, 0, 3, 5, 1, 4, 6, 2, 4>>
day_name(v) ==
    IF v.t # "date" THEN NaN
    ELSE LET y == IF v.m < 3 THEN v.y - 1 ELSE v.y
             w == (y + (y \div 4) - (y \div 100) + (y \div 400)
                   + MonthOffset[v.m] + v.d) % 7
         IN Str(DayNames[w + 1])

\* Series.dt.month
dt_month(v) == IF v.t = "date" THEN Num(v.m) ELSE NaN


(***************************************************************************)
(* clean_abandonments (clean_animals.py 35-140)                            *)
(***************************************************************************)

\* get_raw: the value under key of a key-value payload, None for a payload that
\* is no key-value structure or lacks the key.
get_raw(x, key) ==
    IF x.t = "dict" /\ key \in DOMAIN x.kv THEN x.kv[key] ELSE None

Male == <<"M", "a", "l", "e">>
Female == <<"F", "e", "m", "a", "l", "e">>
Unknown == <<"U", "n", "k", "n", "o", "w", "n">>
Spring == <<"S", "p", "r", "i", "n", "g">>
Summer == <<"S", "u", "m", "m", "e", "r">>
Fall == <<"F", "a", "l", "l">>
Winter == <<"W", "i", "n", "t", "e", "r">>

\* .map({"M": "Male", "F": "Female", "Q": "Unknown"})
MapSex(v) ==
    CASE v = Str(<<"M">>) -> Str(Male)
      [] v = Str(<<"F">>) -> Str(Female)
      [] v = Str(<<"Q">>) -> Str(Unknown)
      [] OTHER -> NaN

\* .map({"Y": 1, "N": 0, "U": np.nan})
MapNeuter(v) ==
    CASE v = Str(<<"Y">>) -> Num(1)
      [] v = Str(<<"N">>) -> Num(0)
      [] OTHER -> NaN

\* kind_full.str.extract(r"\[(.*?)\]").iloc[:, 0]
ExtractSpecies(v) ==
    IF ~isstr(v) THEN NaN
    ELSE LET m == MatchDelimited(v.s, "[", "]")
         IN IF m[1] = 0 THEN NaN ELSE Str(SubSeq(v.s, m[1] + 1, m[2] - 1))

\* kind_full.str.replace(r"\[.*?\]\s*", "", regex=True)
ExtractBreed(v) ==
    IF ~isstr(v) THEN NaN ELSE Str(RemoveDelimited(v.s, "[", "]", TRUE))

\* weight_raw.astype(str).str.replace(r"\(.*?\)", "").replace({"": nan}), then
\* pd.to_numeric(..., errors="coerce")
CleanWeight(v) ==
    LET s == RemoveDelimited(AsStr(v), "(", ")", FALSE)
    IN IF s = <<>> THEN NaN ELSE to_numeric(Str(s))

\* .astype(str).str.extract(r"(\d{4})")[0]: the first four digits in a row.
ExtractYear(v) ==
    LET s == AsStr(v)
        I == {i \in 1..(Len(s) - 3) : \A j \in i..(i + 3) : IsDigit(s[j])}
    IN IF I = {} THEN NaN ELSE Str(SubSeq(s, MinOf(I), MinOf(I) + 3))

\* birthYear: parsed from ageRaw when the table has that column.
BirthYear(r, cols) ==
    IF "ageRaw" \in cols THEN to_numeric(ExtractYear(r.ageRaw)) ELSE NaN

AgeOfPastYearsOnly(by, year) ==
    IF isna(by) \/ by.n > year THEN NaN ELSE Num(year - by.n)

\* age = current_year - birthYear (nan when birthYear is nan)
Age(by, year) == IF isna(by) THEN NaN ELSE Num(year - by.n)

\* split_sido_sigungu: <<first token, second token>> of a text, None for what
\* is not there.
split_sido_sigungu(val) ==
    IF isstr(val)
    THEN LET parts == Split(val.s)
         IN IF Len(parts) >= 2 THEN <<Str(parts[1]), Str(parts[2])>>
            ELSE IF Len(parts) = 1 THEN <<Str(parts[1]), None>>
            ELSE <<None, None>>
    ELSE <<None, None>>

FillSidoAlways(r, cols, tmp) == tmp

\* sido: the first token when the table has no sido column, else the column
\* with its missing cells filled by the first token.
FillSido(r, cols, tmp) ==
    IF "sido" \notin cols THEN tmp
    ELSE IF isna(r.sido) THEN (IF isna(tmp) THEN r.sido ELSE tmp)
    ELSE r.sido

SigunguNoFallback(r, tmp) == tmp

\* sigungu: _sigungu_tmp.where(_sigungu_tmp.notna(), ab.get("sigungu"))
FillSigungu(r, tmp) == IF notna(tmp) THEN tmp ELSE r.sigungu

get_season_june_in_spring(m) ==
    IF isna(m) THEN NaN
    ELSE IF m.n \in {3, 4, 5, 6} THEN Str(Spring)
    ELSE IF m.n \in {7, 8} THEN Str(Summer)
    ELSE IF m.n \in {9, 10, 11} THEN Str(Fall)
    ELSE Str(Winter)

\* get_season
get_season(m) ==
    IF isna(m) THEN NaN
    ELSE IF m.n \in {3, 4, 5} THEN Str(Spring)
    ELSE IF m.n \in {6, 7, 8} THEN Str(Summer)
    ELSE IF m.n \in {9, 10, 11} THEN Str(Fall)
    ELSE Str(Winter)

\* pd.to_datetime(cell, errors="coerce") without a format, on the cells the
\* model draws (missing, or a text that ParseYmd reads or that holds a letter).
to_datetime_any(v) == to_datetime(v)

\* The columns clean_abandonments reads with ab[...] or through a None that
\* ab.get(...) returns for a column the table lacks: without one of them the
\* call raises (KeyError at 49, AttributeError at 69, 70, 106, 122).
AbRequired == {"raw", "sexCd", "neuterYn", "sigungu", "happenDt"}

AbDerived ==
    {"happenDt", "noticeSdt", "noticeEdt", "updateDt", "species", "breed", "sex",
     "neuter", "weight", "birthYear", "age", "sido", "sigungu", "month",
     "weekday", "season"}

\* One row of clean_abandonments' result.
CleanAbRow(r, cols, year) ==
    LET dt == to_datetime(r.happenDt)
        kind_full == get_raw(r.raw, "kindFullNm")
        by == BirthYear(r, cols)
        tmp == split_sido_sigungu(r.sigungu)
        month == dt_month(dt)
    IN [happenDt |-> dt,
        noticeSdt |-> to_datetime(get_raw(r.raw, "noticeSdt")),
        noticeEdt |-> to_datetime(get_raw(r.raw, "noticeEdt")),
        updateDt |-> to_datetime_any(get_raw(r.raw, "updTm")),
        species |-> ExtractSpecies(kind_full),
        breed |-> ExtractBreed(kind_full),
        sex |-> MapSex(r.sexCd),
        neuter |-> MapNeuter(r.neuterYn),
        weight |-> CleanWeight(get_raw(r.raw, "weight")),
        birthYear |-> by,
        age |-> Age(by, year),
        sido |-> FillSido(r, cols, tmp[1]),
        sigungu |-> FillSigungu(r, tmp[2]),
        month |-> month,
        weekday |-> day_name(dt),
        season |-> get_season(month)] @@ r

\* What a call leaves when it raises, and a result not computed yet.
Raised == [st |-> "raised", cols |-> {}, rows |-> <<>>]
Unset == [st |-> "unset", cols |-> {}, rows |-> <<>>]
Table(cols, rows) == [st |-> "table", cols |-> cols, rows |-> rows]

clean_abandonments(ab, year) ==
    IF ~(AbRequired \subseteq ab.cols) THEN Raised
    ELSE Table(ab.cols \cup AbDerived,
               [i \in 1..Len(ab.rows) |-> CleanAbRow(ab.rows[i], ab.cols, year)])


(***************************************************************************)
(* clean_registrations (clean_animals.py 145-189)                          *)
(***************************************************************************)

RegCanonical ==
    {"sido", "sigungu", "birthYear", "rfidType", "kind", "species", "count"}

\* The raw key each canonical column is backfilled from.
RegRawKey ==
    [sido |-> "CTPV", sigungu |-> "SGG", birthYear |-> "BRDT",
     rfidType |-> "RFID_SE", kind |-> "LVSTCK_KND", species |-> "SPCS",
     count |-> "CNT"]

RegColumnFillsMissing(r, cols, c) ==
    IF c \in cols /\ notna(r[c]) THEN r[c] ELSE get_raw(r.raw, RegRawKey[c])

\* A canonical column of the result: the column when the table has it, the raw
\* key's value otherwise.
RegColumn(r, cols, c) ==
    IF c \in cols THEN r[c] ELSE get_raw(r.raw, RegRawKey[c])

CleanRegRow(r, cols) ==
    [sido |-> RegColumn(r, cols, "sido"),
     sigungu |-> RegColumn(r, cols, "sigungu"),
     birthYear |-> to_numeric(RegColumn(r, cols, "birthYear")),
     rfidType |-> RegColumn(r, cols, "rfidType"),
     kind |-> RegColumn(r, cols, "kind"),
     species |-> RegColumn(r, cols, "species"),
     count |-> to_numeric(RegColumn(r, cols, "count"))] @@ r

\* reg["raw"] is read (KeyError without the column) only for a canonical column
\* the table lacks.
clean_registrations(reg) ==
    IF ~(RegCanonical \subseteq reg.cols) /\ "raw" \notin reg.cols THEN Raised
    ELSE Table(reg.cols \cup RegCanonical,
               [i \in 1..Len(reg.rows) |-> CleanRegRow(reg.rows[i], reg.cols)])

(***************************************************************************)
(* clean_shelters (clean_animals.py 194-235)                               *)
(***************************************************************************)

\* split_addr: the same split as split_sido_sigungu.
split_addr(val) == split_sido_sigungu(val)

ShDerived == {"careAddr", "sido", "sigungu", "lat", "lng", "openDate"}

CleanShRow(r, cols) ==
    LET addr == Str(AsStr(r.careAddr))
        parts == split_addr(addr)
    IN [careAddr |-> addr,
        sido |-> parts[1],
        sigungu |-> parts[2],
        lat |-> IF "lat" \in cols THEN r.lat ELSE get_raw(r.raw, "lat"),
        lng |-> IF "lng" \in cols THEN r.lng ELSE get_raw(r.raw, "lng"),
        openDate |-> IF "openDate" \in cols THEN to_datetime_any(r.openDate)
                     ELSE to_datetime_any(get_raw(r.raw, "dsignationDate"))] @@ r

\* sh.get("careAddr") is None without the column (AttributeError at 199);
\* sh["raw"] is read only for lat, lng or openDate the table lacks.
clean_shelters(sh) ==
    IF \/ "careAddr" \notin sh.cols
       \/ ~({"lat", "lng", "openDate"} \subseteq sh.cols) /\ "raw" \notin sh.cols
    THEN Raised
    ELSE Table(sh.cols \cup ShDerived,
               [i \in 1..Len(sh.rows) |-> CleanShRow(sh.rows[i], sh.cols)])

(***************************************************************************)
(* merge_abandonments_with_shelters (clean_animals.py 240-249)             *)
(***************************************************************************)

ShProjection ==
    {"careNm", "lat", "lng", "careAddr", "divisionNm", "sido", "sigungu"}

\* DataFrame.merge compares the key column's values; as pandas documents for
\* merge, two rows whose keys are both null are matched against each other.
KeyMatch(a, b) == (isna(a) /\ isna(b)) \/ a = b

\* The shelter attributes an event row gets: sido and sigungu are in both
\* tables, so the shelter's take the suffix; the event tables of the model
\* have no lat, lng, careAddr or divisionNm column of their own.
ShelterPart(s) ==
    [lat |-> s.lat, lng |-> s.lng, careAddr |-> s.careAddr,
     divisionNm |-> s.divisionNm, sido_shelter |-> s.sido,
     sigungu_shelter |-> s.sigungu]

NoShelter ==
    [lat |-> NaN, lng |-> NaN, careAddr |-> NaN, divisionNm |-> NaN,
     sido_shelter |-> NaN, sigungu_shelter |-> NaN]

ShelterFields == DOMAIN NoShelter

\* The result rows of one event row: one per matching shelter row, in the
\* shelter table's order, or one with no shelter attributes.
JoinRow(e, shRows) ==
    LET ms == SelectSeq(shRows, LAMBDA s : KeyMatch(e.careNm, s.careNm))
    IN IF ms = <<>> THEN <<NoShelter @@ e>>
       ELSE [k \in 1..Len(ms) |-> ShelterPart(ms[k]) @@ e]

RECURSIVE JoinRows(_, _)
JoinRows(abRows, shRows) ==
    IF abRows = <<>> THEN <<>>
    ELSE JoinRow(Head(abRows), shRows) \o JoinRows(Tail(abRows), shRows)

\* sh[[...]] raises KeyError for a column the shelter table lacks, the merge
\* for a key the event table lacks.
merge_abandonments_with_shelters(a, s) ==
    IF ~(ShProjection \subseteq s.cols) \/ "careNm" \notin a.cols THEN Raised
    ELSE Table(a.cols \cup ShelterFields, JoinRows(a.rows, s.rows))


(***************************************************************************)
(* The Analyzer's and the Visualizer's routines: the columns each reads    *)
(* without a guard (a KeyError when one is absent), and its skip notices.  *)
(* cols is the column set of the table the routine is given.               *)
(***************************************************************************)

ModelFeatures ==
    {"species", "breed", "sex", "neuter", "age", "weight", "month", "season",
     "weekday", "sido", "sigungu"}

\* analysis_model.py 43-57
analyze_basic_patterns_needs(cols) ==
    {"processState", "species", "sex", "neuter", "age"}

\* analysis_model.py 62-124: ab_sample[features + [target]]
build_and_evaluate_model_needs(cols) == ModelFeatures \cup {"processState"}

\* analysis_model.py 129-149: only the yearly part is guarded.
analyze_time_series_needs(cols) == {"month", "uid", "processState"}
analyze_time_series_notes(cols) ==
    IF "year" \in cols THEN {} ELSE {"no year column: yearly analysis skipped"}

\* analysis_model.py 154-167
analyze_spatial_needs(cols) == {"sido", "uid", "sigungu", "processState"}

\* analysis_model.py 172-191: only the correlation matrix is guarded.
analyze_correlations_needs(cols) ==
    {"sex", "processState", "neuter", "species", "season"}
analyze_correlations_notes(cols) ==
    IF {"age", "weight", "month"} \cap cols # {} THEN {}
    ELSE {"no numeric column: correlation skipped"}

\* visualization.py 45-83: year and season are guarded, month is not.
plot_time_series_ab_needs(cols) == {"month", "uid"}

\* visualization.py 88-106
plot_heatmap_sido_month_ab_needs(cols) == {"sido", "month", "uid"}

\* visualization.py 260-294: the yearly chart is guarded by year and reads uid.
plot_process_state_needs(cols) ==
    {"processState"} \cup (IF "year" \in cols THEN {"uid"} ELSE {})

\* visualization.py 338-357
plot_species_distribution_needs(cols) == {"species"}

\* visualization.py 111-149 (the registration table)
plot_registrations_needs(cols) == {"sido", "count"}

\* visualization.py 154-196: <<columns of ab, columns of reg>>
plot_abandon_vs_register_by_sido_needs ==
    <<{"sido", "uid"}, {"sido", "count"}>>

\* visualization.py 201-255 (the shelter table): the bar chart is guarded by
\* orgNm and reads uid, the map is guarded by lat and lng.
plot_shelter_distribution_needs(cols) ==
    IF "orgNm" \in cols THEN {"uid"} ELSE {}
plot_shelter_distribution_notes(cols) ==
    IF {"lat", "lng"} \subseteq cols THEN {}
    ELSE {"no lat/lng column: map skipped"}

\* visualization.py 299-334: <<columns of ab, of reg, of sh>>; the shelter
\* export is guarded by lat, lng and careNm and then selects orgNm as well.
export_for_tableau_needs(c) ==
    << {"sido", "month", "processState", "uid"},
       IF "birthYear" \in c.reg THEN {"sido", "birthYear", "count"} ELSE {},
       IF {"lat", "lng", "careNm"} \subseteq c.sh
       THEN {"careNm", "orgNm", "lat", "lng"} ELSE {} >>


(***************************************************************************)
(* The Analyzer's output (analysis_model.py 17-30).  At import the module   *)
(* opens log_file and binds sys.stdout to Tee(sys.stdout, log_file); the    *)
(* binding is never undone.  out is the state of the two sinks:            *)
(*   console, log  the data written to the interactive stream and to the   *)
(*                 log file, in order;                                     *)
(*   log_file      "open" or "closed";                                     *)
(*   late          the operations issued to log_file while it was closed   *)
(*                 (each raises ValueError);                               *)
(*   failed        a write raised.                                         *)
(***************************************************************************)

\* Tee.write (23-25): the streams in order, sys.stdout first; a write to the
\* closed log file raises after the interactive stream has taken the data.
Tee_write(out, data) ==
    IF out.log_file = "open"
    THEN [out EXCEPT !.console = Append(@, data), !.log = Append(@, data)]
    ELSE [out EXCEPT !.console = Append(@, data), !.late = @ \cup {"write"},
                     !.failed = TRUE]

\* Tee.flush (26-28): both streams are flushed; the closed log file raises.
Tee_flush(out) ==
    IF out.log_file = "open" THEN out
    ELSE [out EXCEPT !.late = @ \cup {"flush"}, !.failed = TRUE]

\* A routine's statements in order, each <<the columns it reads, the line it
\* prints>>: a statement that reads a column the table lacks raises KeyError
\* before its print, and a print whose write raises ends the routine too.
RECURSIVE Prints(_, _, _)
Prints(out, stmts, have) ==
    IF stmts = <<>> \/ out.failed THEN out
    ELSE IF ~(Head(stmts)[1] \subseteq have) THEN [out EXCEPT !.failed = TRUE]
    ELSE Prints(Tee_write(out, Head(stmts)[2]), Tail(stmts), have)

\* analysis_model.py 34-38
load_data_prints(cols) == << <<{}, "load">>, <<{}, "shape">> >>

\* analysis_model.py 43-57
analyze_basic_patterns_prints(cols) ==
    << <<{}, "4-1 processState">>, <<{"processState"}, "processState ratio">>,
       <<{}, "4-1 species">>, <<{"species"}, "species counts">>,
       <<{}, "4-1 sex">>, <<{"sex"}, "sex counts">>,
       <<{}, "4-1 neuter">>, <<{"neuter"}, "neuter counts">>,
       <<{}, "4-1 age">>, <<{"age"}, "age describe">> >>

\* analysis_model.py 62-124: the selection of line 77 precedes the later prints.
build_and_evaluate_model_prints(cols) ==
    << <<{}, "4-2">>, <<{}, "sampling">>, <<{}, "sample shape">>,
       <<ModelFeatures \cup {"processState"}, "train shape">>,
       <<{}, "test shape">>, <<{}, "accuracy">>, <<{}, "report header">>,
       <<{}, "report">> >>

\* analysis_model.py 129-149
analyze_time_series_prints(cols) ==
    << <<{}, "4-3">> >>
    \o (IF "year" \in cols
        THEN << <<{"uid"}, "yearly header">>, <<{}, "yearly">>,
                <<{"processState", "uid"}, "year x state header">>,
                <<{}, "year x state">> >>
        ELSE << <<{}, "no year column: yearly analysis skipped">> >>)
    \o << <<{"month", "uid"}, "monthly header">>, <<{}, "monthly">>,
          <<{"month", "processState", "uid"}, "month x state header">>,
          <<{}, "month x state">> >>

\* analysis_model.py 154-167
analyze_spatial_prints(cols) ==
    << <<{}, "4-4">>, <<{}, "sido header">>, <<{"sido", "uid"}, "sido counts">>,
       <<{}, "sigungu header">>, <<{"sigungu", "uid"}, "sigungu counts">>,
       <<{}, "sido x state header">>, <<{"sido", "processState"}, "sido x state">> >>

\* analysis_model.py 172-191
analyze_correlations_prints(cols) ==
    << <<{}, "4-5">> >>
    \o (IF {"age", "weight", "month"} \cap cols # {}
        THEN << <<{}, "corr header">>, <<{}, "corr">> >>
        ELSE << <<{}, "no numeric column: correlation skipped">> >>)
    \o << <<{}, "sex x state header">>, <<{"sex", "processState"}, "sex x state">>,
          <<{}, "neuter x state header">>,
          <<{"neuter", "processState"}, "neuter x state">>,
          <<{}, "species x season header">>,
          <<{"species", "season"}, "species x season">> >>


(***************************************************************************)
(* The Analyzer's routines on a table a caller passes in.  A row is         *)
(* [processState, weight, age], the cells build_and_evaluate_model looks    *)
(* at (77-81); of the other columns only the names matter.  Each operator   *)
(* gives [st, ab]: whether the body runs to its end, short of the printing, *)
(* and the caller's table after the call.                                   *)
(***************************************************************************)

\* The subsets of S of at most n elements.
RECURSIVE UpTo(_, _)
UpTo(S, n) ==
    IF n = 0 THEN {{}}
    ELSE LET P == UpTo(S, n - 1) IN P \cup {q \cup {x} : q \in P, x \in S}

\* round(frac * len) of DataFrame.sample(frac=0.1): halves go to the even
\* integer (exact for the lengths used here).
SampleSize(n) ==
    LET q == n \div 10
        r == n % 10
    IN IF r < 5 THEN q
       ELSE IF r > 5 THEN q + 1
       ELSE IF q % 2 = 0 THEN q ELSE q + 1

\* The index sets ab.sample(frac=0.1, random_state=42) may pick: the generator
\* fixes one of them for a table of a given length, whatever the rows' order.
Samples(t) ==
    LET n == SampleSize(Len(t.rows))
    IN {S \in UpTo(1..Len(t.rows), n) : Cardinality(S) = n}

Rational(n, d) == [t |-> "num", n |-> n, d |-> d]       \* the number n / d
RECURSIVE SumOf(_)
SumOf(xs) == IF xs = <<>> THEN 0 ELSE Head(xs).n + SumOf(Tail(xs))
\* Series.mean(): NaN cells are skipped; NaN when nothing is left.
mean(xs) ==
    LET there == SelectSeq(xs, notna)
    IN IF there = <<>> THEN NaN ELSE Rational(SumOf(there), Len(there))
\* Series.median(): the middle of the sorted cells, or of the two middle ones.
median(xs) ==
    LET there == SelectSeq(xs, notna)
        n == Len(there)
        \* the k-th smallest cell
        Kth(k) == CHOOSE v \in {there[i].n : i \in 1..n} :
                     /\ Cardinality({i \in 1..n : there[i].n < v}) < k
                     /\ Cardinality({i \in 1..n : there[i].n <= v}) >= k
    IN IF n = 0 THEN NaN
       ELSE IF n % 2 = 1 THEN Rational(Kth((n + 1) \div 2), 1)
       ELSE Rational(Kth(n \div 2) + Kth(n \div 2 + 1), 2)
fillna(v, with) == IF isna(v) THEN with ELSE v

\* df_model (77-81): the sampled rows whose target is there, a copy, with the
\* missing weights and ages of the copy filled.
df_model_of(t, picked) ==
    LET ab_sample == SelectSeq([i \in 1..Len(t.rows) |->
                                   [at |-> i, row |-> t.rows[i]]],
                               LAMBDA x : x.at \in picked)
        kept == SelectSeq(ab_sample, LAMBDA x : notna(x.row.processState))
        copy == [i \in 1..Len(kept) |-> kept[i].row]
        w == mean([i \in 1..Len(copy) |-> copy[i].weight])
        a == median([i \in 1..Len(copy) |-> copy[i].age])
    IN [i \in 1..Len(copy) |->
           [copy[i] EXCEPT !.weight = fillna(@, w), !.age = fillna(@, a)]]

\* train_test_split(X, y, test_size=0.2, stratify=y) (108-113) returns when
\* both parts are non-empty, every class has two rows and each part has room
\* for every class; ValueError otherwise (n up to 4: ceil(0.2 n) is 1).
train_test_split_returns(y) ==
    LET n == Len(y)
        classes == {y[i] : i \in 1..n}
        n_test == (n + 4) \div 5
        n_train == n - n_test
    IN /\ n > 0 /\ n_train > 0
       /\ \A c \in classes : Cardinality({i \in 1..n : y[i] = c}) >= 2
       /\ n_train >= Cardinality(classes)
       /\ n_test >= Cardinality(classes)

\* build_and_evaluate_model (62-124).  The sample, the selection and df_model
\* are new objects and lines 80-81 assign into df_model: ab is not written.
\* Fitting and scoring (118-124) are taken to return.
build_and_evaluate_model(t, picked) ==
    LET df_model == df_model_of(t, picked)
        y == [i \in 1..Len(df_model) |-> df_model[i].processState]
    IN [st |-> IF /\ build_and_evaluate_model_needs(t.cols) \subseteq t.cols
                  /\ train_test_split_returns(y)
               THEN "returned" ELSE "raised",
        ab |-> t]

\* The print up to which build_and_evaluate_model gets when the split raises:
\* the three of lines 63-68.
BeforeSplit == 3

\* analyze_basic_patterns, analyze_time_series, analyze_spatial and
\* analyze_correlations (43-57, 129-191) count, group and tabulate: every
\* call on ab gives a new object, and nothing is assigned into ab.
Tabulate(t, needs) ==
    [st |-> IF needs \subseteq t.cols THEN "returned" ELSE "raised", ab |-> t]

\* main (196-206) as one call: the six routines on the file's table and, when
\* none raised, log_file.close().
main_prints(cols) ==
    load_data_prints(cols) \o analyze_basic_patterns_prints(cols)
    \o build_and_evaluate_model_prints(cols) \o analyze_time_series_prints(cols)
    \o analyze_spatial_prints(cols) \o analyze_correlations_prints(cols)
main(out, cols) ==
    LET after == Prints(out, main_prints(cols), cols)
    IN IF after.failed THEN after ELSE [after EXCEPT !.log_file = "closed"]


(***************************************************************************)
(* Inputs.  Every family varies one part of the example record of the      *)
(* spec's end-to-end scenario and keeps the rest.                          *)
(***************************************************************************)

MaxKindLen == 5
MaxWeightLen == 4
MaxAgeLen == 5
MaxRegionLen == 4
MaxEvents == 2
MaxShelters == 2
MaxAbsent == 2
MaxRows == 16
MaxCalls == 2

\* The texts over alphabet A of at most n characters.
Texts(A, n) == UNION {[1..k -> A] : k \in 0..n}

KindAlphabet == {"[", "]", " ", "g"}
WeightAlphabet == {"6", ".", "(", ")"}
AgeAlphabet == {"2", "0", "("}
RegionAlphabet == {"S", "G", " "}

D2(n) == <<Digits[(n \div 10) + 1], Digits[(n % 10) + 1]>>
D4(n) == D2(n \div 100) \o D2(n % 100)

ExampleKind == <<"[", "g", "]", " ", "m", "i", "x">>
ExampleWeight == <<"6", ".", "8", "(", "K", "g", ")">>
ExampleAge == <<"2", "0", "1", "6", "(", "y", "b", ")">>
ExampleRegion == <<"S", "e", "o", "u", "l", " ", "G", "n", "g">>
ExampleDate == D4(2022) \o D2(6) \o D2(15)

ExampleRaw ==
    Dict([kindFullNm |-> Str(ExampleKind), weight |-> Str(ExampleWeight),
          noticeSdt |-> Str(D4(2022) \o D2(6) \o D2(16)),
          noticeEdt |-> Str(D4(2022) \o D2(6) \o D2(26)),
          updTm |-> None])

\* The event record of the end-to-end scenario (sido: the table has no such
\* column).
ExampleRow ==
    [uid |-> Str(<<"u", "1">>), careNm |-> Str(<<"X">>),
     happenDt |-> Str(ExampleDate), raw |-> ExampleRaw, sexCd |-> Str(<<"F">>),
     neuterYn |-> Str(<<"Y">>), ageRaw |-> Str(ExampleAge),
     sigungu |-> Str(ExampleRegion), sido |-> NaN]

AbBaseCols ==
    {"uid", "careNm", "happenDt", "raw", "sexCd", "neuterYn", "ageRaw", "sigungu"}

WithRaw(r, key, v) == [r EXCEPT !.raw = Dict([r.raw.kv EXCEPT ![key] = v])]

\* pd.DataFrame(list(cursor)) of no document: no row and no column.
EmptyTable == Table({}, <<>>)

OneRow(cols, r) == Table(cols, <<r>>)

\* The event table whose one record is the example with another composite
\* species text, another raw payload, raw weight, ageRaw or region.
AbKindInput(s) == OneRow(AbBaseCols, WithRaw(ExampleRow, "kindFullNm", Str(s)))

AbRawInputs ==
    {OneRow(AbBaseCols, [ExampleRow EXCEPT !.raw = v]) :
        v \in {None, NaN, Str(<<"g">>), Dict([weight |-> Str(<<"6">>)]),
               WithRaw(ExampleRow, "kindFullNm", None).raw,
               WithRaw(ExampleRow, "weight", None).raw,
               WithRaw(ExampleRow, "weight", NaN).raw}}

AbWeightInput(s) == OneRow(AbBaseCols, WithRaw(ExampleRow, "weight", Str(s)))

AbAgeInput(v) == OneRow(AbBaseCols, [ExampleRow EXCEPT !.ageRaw = v])

\* sido: NoColumn for a table without the column, else the cell's value.
NoColumn == [t |-> "absent"]
AbRegionInput(v, sido) ==
    IF sido = NoColumn THEN OneRow(AbBaseCols, [ExampleRow EXCEPT !.sigungu = v])
    ELSE OneRow(AbBaseCols \cup {"sido"},
                [ExampleRow EXCEPT !.sigungu = v, !.sido = sido])

OtherRegionValues == {None, NaN, Num(5)}
SidoCells == {NoColumn, NaN, None, Str(<<"J">>)}

DateValues ==
    {Str(D4(y) \o D2(m) \o D2(d)) :
        y \in {1600, 2022, 2024}, m \in 0..13, d \in {0, 1, 15, 28, 29, 30, 31, 32}}
    \cup {Str(<<>>), Str(<<"2", "0", "2", "2", "-", "0", "6", "-", "1", "5">>),
          Str(<<"y", "e", "s", "t", "e", "r", "d", "a">>), None, NaN}

AbDateInputs ==
    {OneRow(AbBaseCols, [ExampleRow EXCEPT !.happenDt = v]) : v \in DateValues}

SexCodes == {Str(<<"M">>), Str(<<"F">>), Str(<<"Q">>), Str(<<"X">>), None, NaN, Num(1)}
NeuterCodes ==
    {Str(<<"Y">>), Str(<<"N">>), Str(<<"U">>), Str(<<"X">>), None, NaN, Num(1)}

AbCodeInputs ==
    {OneRow(AbBaseCols, [ExampleRow EXCEPT !.sexCd = x, !.neuterYn = n]) :
        x \in SexCodes, n \in NeuterCodes}

\* A cell of a column the table lacks is written NaN in the row record.
Blank(r, cols) == [f \in DOMAIN r |-> IF f \in cols THEN r[f] ELSE NaN]

AbColumnInputs ==
    {OneRow(cols, Blank([ExampleRow EXCEPT !.sido = Str(<<"J">>)], cols)) :
        cols \in {(AbBaseCols \cup {"sido"}) \ gone :
                    gone \in SUBSET {"happenDt", "raw", "sexCd", "neuterYn", "ageRaw",
                                     "sigungu", "careNm", "sido"}}}

\* A record whose every field is malformed or missing, besides the example.
BadRow ==
    [uid |-> Str(<<"u", "2">>), careNm |-> NaN, happenDt |-> Str(<<"?">>),
     raw |-> None, sexCd |-> Str(<<"X">>), neuterYn |-> Str(<<"U">>),
     ageRaw |-> NaN, sigungu |-> Str(<<"S">>), sido |-> NaN]

AbBatchInputs ==
    {Table(AbBaseCols, <<a, b>>) : a, b \in {ExampleRow, BadRow}}
    \cup {EmptyTable}

\* A registration record carrying both the canonical values and the raw keys.
RegRaw ==
    Dict([CTPV |-> Str(<<"S">>), SGG |-> Str(<<"G">>), BRDT |-> Str(D4(2019)),
          CNT |-> Str(<<"3">>), RFID_SE |-> Str(<<"i">>),
          LVSTCK_KND |-> Str(<<"g">>), SPCS |-> Str(<<"m">>)])

RegRows ==
    { [sido |-> Str(<<"J">>), sigungu |-> Str(<<"K">>), birthYear |-> Num(2020),
       rfidType |-> Str(<<"e">>), kind |-> Str(<<"c">>), species |-> Str(<<"p">>),
       count |-> Num(7), raw |-> RegRaw],
      [sido |-> NaN, sigungu |-> None, birthYear |-> Str(<<"2", "0", "x">>),
       rfidType |-> NaN, kind |-> NaN, species |-> NaN,
       count |-> Str(<<"7", ".", "5">>), raw |-> RegRaw],
      [sido |-> Str(<<"J">>), sigungu |-> Str(<<"K">>), birthYear |-> Str(D4(2021)),
       rfidType |-> Str(<<"e">>), kind |-> Str(<<"c">>), species |-> Str(<<"p">>),
       count |-> NaN, raw |-> Str(<<"g">>)],
      [sido |-> None, sigungu |-> Str(<<"K">>), birthYear |-> NaN,
       rfidType |-> Str(<<"e">>), kind |-> None, species |-> Str(<<"p">>),
       count |-> Num(2),
       raw |-> Dict([CTPV |-> Str(<<"S">>), BRDT |-> Str(<<"2", "0", "x">>),
                     CNT |-> NaN])] }

RegInputs ==
    {OneRow(cols, Blank(r, cols)) :
        r \in RegRows,
        cols \in {(RegCanonical \cup {"raw"}) \ gone :
                    gone \in SUBSET (RegCanonical \cup {"raw"})} \ {{}}}
    \cup {EmptyTable}

ShelterRaw ==
    Dict([lat |-> Num(36), lng |-> Num(128),
          dsignationDate |-> Str(D4(2015) \o D2(3) \o D2(1))])

\* A shelter record; lat tells the records of one name apart.
ShelterRow(name, lat) ==
    [uid |-> Str(<<"s">>), careNm |-> name,
     careAddr |-> Str(<<"S", " ", "G", " ", "1">>), divisionNm |-> Str(<<"d">>),
     orgNm |-> Str(<<"o">>), lat |-> Num(lat), lng |-> Num(127),
     openDate |-> Str(D4(2010) \o D2(1) \o D2(2)), raw |-> ShelterRaw,
     sido |-> Str(<<"J">>), sigungu |-> Str(<<"K">>)]

ShFullCols == DOMAIN ShelterRow(NaN, 0)

ExampleShelter == ShelterRow(Str(<<"X">>), 37)

\* The shelter table whose one record is the example with another address.
ShAddrInput(v, cols) ==
    OneRow(cols, Blank([ExampleShelter EXCEPT !.careAddr = v], cols))

ShAddrCols == {ShFullCols, ShFullCols \ {"sido", "sigungu"}}

ShColumnInputs ==
    {OneRow(cols, Blank(ExampleShelter, cols)) :
        cols \in {ShFullCols \ gone :
                    gone \in SUBSET {"careAddr", "sido", "sigungu", "lat", "lng",
                                     "openDate", "raw", "divisionNm", "careNm"}}}
    \cup {EmptyTable}

\* Event tables of the join: record i has the uid "u<i>" and one of three
\* shelter names, one of them missing.
JoinNames == {Str(<<"X">>), Str(<<"Y">>), NaN}
EventRows(names) ==
    [i \in 1..Len(names) |->
        [ExampleRow EXCEPT !.uid = Str(<<"u", Digits[i + 1]>>), !.careNm = names[i]]]
JoinEventInputs ==
    {Table(AbBaseCols, EventRows(names)) :
        names \in UNION {[1..k -> JoinNames] : k \in 1..MaxEvents}}

JoinShelterRows ==
    {ShelterRow(Str(<<"X">>), 37), ShelterRow(Str(<<"X">>), 38), ShelterRow(NaN, 33)}
JoinShelterInputs ==
    {Table(ShFullCols, rows) :
        rows \in UNION {[1..k -> JoinShelterRows] : k \in 1..MaxShelters}}

DefaultAb == OneRow(AbBaseCols, ExampleRow)
DefaultReg == OneRow(RegCanonical \cup {"raw"}, CHOOSE r \in RegRows : r.count = Num(7))
DefaultSh == OneRow(ShFullCols, ExampleShelter)

CurrentYears == {2025, 2026}

\* The small families of event tables and of shelter tables.
AbInputs ==
    AbRawInputs \cup AbDateInputs \cup AbCodeInputs \cup AbColumnInputs
    \cup AbBatchInputs

\* The columns of the three files the Analyzer and the Visualizer load: all
\* the columns their routines read, but for at most MaxAbsent of them.
CsvAbCols == ModelFeatures \cup {"processState", "uid", "year"}
CsvRegCols == {"sido", "birthYear", "count"}
CsvShCols == {"uid", "careNm", "orgNm", "lat", "lng"}
CsvColumns ==
    ({"ab"} \X CsvAbCols) \cup ({"reg"} \X CsvRegCols) \cup ({"sh"} \X CsvShCols)
Present(gone) ==
    [ab |-> {c \in CsvAbCols : <<"ab", c>> \notin gone},
     reg |-> {c \in CsvRegCols : <<"reg", c>> \notin gone},
     sh |-> {c \in CsvShCols : <<"sh", c>> \notin gone}]
CsvInputs == {Present(gone) : gone \in UpTo(CsvColumns, MaxAbsent)}

\* The tables a caller hands to the Analyzer's routines: none, a few or
\* MaxRows rows, every column there or one of them missing.  In the mixed
\* rows the outcome, the weight and the age are each missing now and then.
States == <<Str(<<"A">>), Str(<<"B">>), NaN>>
MixedRow(i) ==
    [processState |-> States[(i % 3) + 1],
     weight |-> IF i % 2 = 0 THEN NaN ELSE Num(i),
     age |-> IF i % 4 = 0 THEN NaN ELSE Num(i % 5)]
PlainRow(i) == [processState |-> Str(<<"A">>), weight |-> Num(i), age |-> NaN]
NoTable == Table({}, <<>>)
CallTables ==
    {Table(cols, [i \in 1..n |-> IF mixed THEN MixedRow(i) ELSE PlainRow(i)]) :
        cols \in {CsvAbCols, CsvAbCols \ {"year"}, CsvAbCols \ {"month"}},
        n \in {0, 6, MaxRows}, mixed \in BOOLEAN}


(***************************************************************************)
(* State.  One run of one entry point: the cleaning pipeline               *)
(* (clean_animals.main), a caller that applies each cleaner to its own     *)
(* result, the Analyzer (analysis_model.main), the Visualizer              *)
(* (visualization.main), or a caller that imports analysis_model and calls *)
(* its routines, and main, on a table of its own.                          *)
(***************************************************************************)
VARIABLES
    prog,        \* the entry point that runs
    pc,          \* the call the run makes next; "done", or "raised"
    now,         \* datetime.now().year
    ab, reg, sh, \* the tables load_data returned
    ab_clean, reg_clean, sh_clean,  \* the cleaners' results
    ab_merged,   \* merge_abandonments_with_shelters' result
    ab_twice, reg_twice, sh_twice,  \* the cleaners' results on their own results
    files,       \* the files the run has written
    csv,         \* the columns of the files the Analyzer / Visualizer load
    ran,         \* the routines that have returned, in order
    notices,     \* the skip notices printed
    sinks,       \* the Analyzer's two sinks and its log file
    client,      \* the MongoClient of get_mongo_db: "open", "closed" or "none"
    given,       \* the table the caller of the Analyzer's routines built
    table,       \* that table as the routines called so far have left it
    calls        \* the routines the caller has called, in order

vars ==
    <<prog, pc, now, ab, reg, sh, ab_clean, reg_clean, sh_clean, ab_merged,
      ab_twice, reg_twice, sh_twice, files, csv, ran, notices, sinks, client,
      given, table, calls>>

loaded == <<prog, now, ab, reg, sh, csv, client, given>>
inputs == <<loaded, table, calls>>
cleaned == <<ab_clean, reg_clean, sh_clean, ab_merged, files>>
twice == <<ab_twice, reg_twice, sh_twice>>
report == <<ran, notices, sinks>>

CleanProgs == {"clean_animals", "normalize_twice"}
ReportProgs == {"analysis_model", "visualization"}
CallProgs == {"analyzer_calls"}

FirstCall ==
    [clean_animals |-> "clean_abandonments", normalize_twice |-> "twice_abandonments",
     analysis_model |-> "load_data", visualization |-> "setup_env",
     analyzer_calls |-> "calling"]

\* What load_data and datetime.now() give the run.
Loaded(a, r, s, y) == ab = a /\ reg = r /\ sh = s /\ now = y
LoadedAb(a) == Loaded(a, DefaultReg, DefaultSh, 2026)

Load ==
    \/ \E s \in Texts(KindAlphabet, MaxKindLen) : LoadedAb(AbKindInput(s))
    \/ \E s \in Texts(WeightAlphabet, MaxWeightLen) : LoadedAb(AbWeightInput(s))
    \/ \E s \in Texts(AgeAlphabet, MaxAgeLen), y \in CurrentYears :
            Loaded(AbAgeInput(Str(s)), DefaultReg, DefaultSh, y)
    \/ \E v \in {None, NaN}, y \in CurrentYears :
            Loaded(AbAgeInput(v), DefaultReg, DefaultSh, y)
    \/ \E s \in Texts(RegionAlphabet, MaxRegionLen), d \in SidoCells :
            LoadedAb(AbRegionInput(Str(s), d))
    \/ \E v \in OtherRegionValues, d \in SidoCells : LoadedAb(AbRegionInput(v, d))
    \/ \E a \in AbInputs : LoadedAb(a)
    \/ \E r \in RegInputs : Loaded(DefaultAb, r, DefaultSh, 2026)
    \/ \E s \in Texts(RegionAlphabet, MaxRegionLen), cols \in ShAddrCols :
            Loaded(DefaultAb, DefaultReg, ShAddrInput(Str(s), cols), 2026)
    \/ \E v \in {None, NaN}, cols \in ShAddrCols :
            Loaded(DefaultAb, DefaultReg, ShAddrInput(v, cols), 2026)
    \/ \E s \in ShColumnInputs : Loaded(DefaultAb, DefaultReg, s, 2026)
    \/ \E a \in JoinEventInputs, s \in JoinShelterInputs :
            Loaded(a, DefaultReg, s, 2026)

\* The sinks once the entry point's module is loaded: analysis_model opens
\* log_file and installs the Tee (17-30); the other modules print to the
\* interactive stream alone and have no log file.
Imported(p) ==
    [console |-> <<>>, log |-> <<>>,
     log_file |-> IF p \in {"analysis_model", "analyzer_calls"}
                  THEN "open" ELSE "none",
     late |-> {}, failed |-> FALSE]

Init ==
    /\ prog \in CleanProgs \cup ReportProgs \cup CallProgs
    /\ pc = FirstCall[prog]
    /\ IF prog \in CleanProgs
       THEN Load /\ csv = Present({})
       ELSE /\ LoadedAb(DefaultAb)
            /\ IF prog \in CallProgs THEN csv = Present({}) ELSE csv \in CsvInputs
    /\ given \in IF prog \in CallProgs THEN CallTables ELSE {NoTable}
    /\ table = given
    /\ calls = <<>>
    /\ ab_clean = Unset /\ reg_clean = Unset /\ sh_clean = Unset
    /\ ab_merged = Unset
    /\ ab_twice = Unset /\ reg_twice = Unset /\ sh_twice = Unset
    /\ files = {}
    /\ ran = <<>>
    /\ notices = {}
    /\ sinks = Imported(prog)
    /\ client = IF prog = "clean_animals" THEN "open" ELSE "none"

\* The next call of a run whose last call returned t, or the end by an exception.
After(t, next) == IF t.st = "raised" THEN "raised" ELSE next

(***************************************************************************)
(* clean_animals.main (254-274)                                            *)
(***************************************************************************)
MainCleanAbandonments ==
    /\ prog = "clean_animals" /\ pc = "clean_abandonments"
    /\ ab_clean' = clean_abandonments(ab, now)
    /\ pc' = After(ab_clean', "clean_registrations")
    /\ UNCHANGED <<inputs, reg_clean, sh_clean, ab_merged, files, twice, report>>

MainCleanRegistrations ==
    /\ prog = "clean_animals" /\ pc = "clean_registrations"
    /\ reg_clean' = clean_registrations(reg)
    /\ pc' = After(reg_clean', "clean_shelters")
    /\ UNCHANGED <<inputs, ab_clean, sh_clean, ab_merged, files, twice, report>>

MainCleanShelters ==
    /\ prog = "clean_animals" /\ pc = "clean_shelters"
    /\ sh_clean' = clean_shelters(sh)
    /\ pc' = After(sh_clean', "merge")
    /\ UNCHANGED <<inputs, ab_clean, reg_clean, ab_merged, files, twice, report>>

MainMerge ==
    /\ prog = "clean_animals" /\ pc = "merge"
    /\ ab_merged' = merge_abandonments_with_shelters(ab_clean, sh_clean)
    /\ pc' = After(ab_merged', "save")
    /\ UNCHANGED <<inputs, ab_clean, reg_clean, sh_clean, files, twice, report>>

MainSave ==
    /\ prog = "clean_animals" /\ pc = "save"
    /\ files' = {"data/clean_abandonments.csv", "data/clean_registrations.csv",
                 "data/clean_shelters.csv"}
    /\ pc' = "done"
    /\ UNCHANGED <<inputs, ab_clean, reg_clean, sh_clean, ab_merged, twice, report>>

(***************************************************************************)
(* Each cleaner applied to a loaded table and then to its own result (a    *)
(* cleaner that raised is not applied again).                              *)
(***************************************************************************)
Again(t, f(_)) == IF t.st = "table" THEN f(t) ELSE Unset

TwiceAbandonments ==
    /\ prog = "normalize_twice" /\ pc = "twice_abandonments"
    /\ ab_clean' = clean_abandonments(ab, now)
    /\ ab_twice' = Again(ab_clean', LAMBDA t : clean_abandonments(t, now))
    /\ pc' = "twice_registrations"
    /\ UNCHANGED <<inputs, reg_clean, sh_clean, ab_merged, files, reg_twice,
                   sh_twice, report>>

TwiceRegistrations ==
    /\ prog = "normalize_twice" /\ pc = "twice_registrations"
    /\ reg_clean' = clean_registrations(reg)
    /\ reg_twice' = Again(reg_clean', clean_registrations)
    /\ pc' = "twice_shelters"
    /\ UNCHANGED <<inputs, ab_clean, sh_clean, ab_merged, files, ab_twice,
                   sh_twice, report>>

TwiceShelters ==
    /\ prog = "normalize_twice" /\ pc = "twice_shelters"
    /\ sh_clean' = clean_shelters(sh)
    /\ sh_twice' = Again(sh_clean', clean_shelters)
    /\ pc' = "done"
    /\ UNCHANGED <<inputs, ab_clean, reg_clean, ab_merged, files, ab_twice,
                   reg_twice, report>>

(***************************************************************************)
(* A routine of the Analyzer or the Visualizer: it returns when the tables *)
(* have the columns it reads (have: the columns there, needs: the columns  *)
(* read), and raises KeyError otherwise; printed are the notices it prints *)
(* before that.                                                            *)
(***************************************************************************)
Routine(p, here, next, have, needs, printed) ==
    /\ prog = p /\ pc = here
    /\ pc' = IF needs \subseteq have THEN next ELSE "raised"
    /\ ran' = IF needs \subseteq have THEN Append(ran, here) ELSE ran
    /\ notices' = notices \cup printed
    /\ UNCHANGED <<inputs, cleaned, twice>>

\* analysis_model.main (196-206); load_data reads the file, whatever its columns.
AnalysisLoadData ==
    /\ Routine("analysis_model", "load_data", "analyze_basic_patterns", {}, {}, {})
    /\ sinks' = Prints(sinks, load_data_prints(csv.ab), csv.ab)

AnalyzeBasicPatterns ==
    /\ Routine("analysis_model", "analyze_basic_patterns", "build_and_evaluate_model",
               csv.ab, analyze_basic_patterns_needs(csv.ab), {})
    /\ sinks' = Prints(sinks, analyze_basic_patterns_prints(csv.ab), csv.ab)

BuildAndEvaluateModel ==
    /\ Routine("analysis_model", "build_and_evaluate_model", "analyze_time_series",
               csv.ab, build_and_evaluate_model_needs(csv.ab), {})
    /\ sinks' = Prints(sinks, build_and_evaluate_model_prints(csv.ab), csv.ab)

AnalyzeTimeSeries ==
    /\ Routine("analysis_model", "analyze_time_series", "analyze_spatial",
               csv.ab, analyze_time_series_needs(csv.ab),
               analyze_time_series_notes(csv.ab))
    /\ sinks' = Prints(sinks, analyze_time_series_prints(csv.ab), csv.ab)

AnalyzeSpatial ==
    /\ Routine("analysis_model", "analyze_spatial", "analyze_correlations",
               csv.ab, analyze_spatial_needs(csv.ab), {})
    /\ sinks' = Prints(sinks, analyze_spatial_prints(csv.ab), csv.ab)

AnalyzeCorrelations ==
    /\ Routine("analysis_model", "analyze_correlations", "close_log",
               csv.ab, analyze_correlations_needs(csv.ab),
               analyze_correlations_notes(csv.ab))
    /\ sinks' = Prints(sinks, analyze_correlations_prints(csv.ab), csv.ab)

\* log_file.close() (206)
AnalysisCloseLog ==
    /\ Routine("analysis_model", "close_log", "done", {}, {}, {})
    /\ sinks' = [sinks EXCEPT !.log_file = "closed"]

\* The script ends (209-210), by main's return or by its exception: the
\* interpreter flushes sys.stdout, which is still the Tee of line 30.  No
\* statement closes a log file that main left open; whether the interpreter's
\* shutdown finalizes the file object is not promised.
AnalysisExit ==
    /\ prog = "analysis_model" /\ pc \in {"done", "raised"}
    /\ pc' = "exited"
    /\ \E finalized \in BOOLEAN :
          sinks' = [Tee_flush(sinks) EXCEPT
                       !.log_file = IF finalized THEN "closed" ELSE @]
    /\ UNCHANGED <<inputs, cleaned, twice, ran, notices>>

(***************************************************************************)
(* A caller that has imported analysis_model calls its routines on its own *)
(* table, in any order, up to MaxCalls times; before any of these calls it *)
(* may call main(), which loads the file and closes log_file.  A call ends *)
(* with the routine's return or with the exception it lets out.            *)
(***************************************************************************)
Call(name, r, stmts) ==
    /\ prog = "analyzer_calls" /\ pc = "calling" /\ Len(calls) < MaxCalls
    /\ calls' = Append(calls, name)
    /\ sinks' = Prints(sinks, stmts, table.cols)
    /\ table' = r.ab
    /\ pc' = IF r.st = "returned" /\ ~sinks'.failed THEN "calling" ELSE "raised"
    /\ UNCHANGED <<loaded, cleaned, twice, ran, notices>>

CallMain ==
    /\ prog = "analyzer_calls" /\ pc = "calling" /\ sinks.log_file = "open"
    /\ sinks' = main(sinks, csv.ab)
    /\ pc' = IF sinks'.failed THEN "raised" ELSE "calling"
    /\ UNCHANGED <<inputs, cleaned, twice, ran, notices>>

CallAnalyzeBasicPatterns ==
    Call("analyze_basic_patterns",
         Tabulate(table, analyze_basic_patterns_needs(table.cols)),
         analyze_basic_patterns_prints(table.cols))

CallBuildAndEvaluateModel ==
    \E picked \in Samples(table) :
        LET r == build_and_evaluate_model(table, picked)
            stmts == build_and_evaluate_model_prints(table.cols)
        IN IF r.st = "returned" \/ ~(build_and_evaluate_model_needs(table.cols)
                                        \subseteq table.cols)
           THEN Call("build_and_evaluate_model", r, stmts)
           ELSE Call("build_and_evaluate_model", r, SubSeq(stmts, 1, BeforeSplit))

CallAnalyzeTimeSeries ==
    Call("analyze_time_series",
         Tabulate(table, analyze_time_series_needs(table.cols)),
         analyze_time_series_prints(table.cols))

CallAnalyzeSpatial ==
    Call("analyze_spatial",
         Tabulate(table, analyze_spatial_needs(table.cols)),
         analyze_spatial_prints(table.cols))

CallAnalyzeCorrelations ==
    Call("analyze_correlations",
         Tabulate(table, analyze_correlations_needs(table.cols)),
         analyze_correlations_prints(table.cols))

\* visualization.main (362-386)
SetupEnv ==
    /\ Routine("visualization", "setup_env", "load_data", {}, {}, {})
    /\ UNCHANGED sinks

VisualizationLoadData ==
    /\ Routine("visualization", "load_data", "plot_time_series_ab", {}, {}, {})
    /\ UNCHANGED sinks

PlotTimeSeriesAb ==
    /\ Routine("visualization", "plot_time_series_ab", "plot_heatmap_sido_month_ab",
               csv.ab, plot_time_series_ab_needs(csv.ab), {})
    /\ UNCHANGED sinks

PlotHeatmapSidoMonthAb ==
    /\ Routine("visualization", "plot_heatmap_sido_month_ab", "plot_process_state",
               csv.ab, plot_heatmap_sido_month_ab_needs(csv.ab), {})
    /\ UNCHANGED sinks

PlotProcessState ==
    /\ Routine("visualization", "plot_process_state", "plot_species_distribution",
               csv.ab, plot_process_state_needs(csv.ab), {})
    /\ UNCHANGED sinks

PlotSpeciesDistribution ==
    /\ Routine("visualization", "plot_species_distribution", "plot_registrations",
               csv.ab, plot_species_distribution_needs(csv.ab), {})
    /\ UNCHANGED sinks

PlotRegistrations ==
    /\ Routine("visualization", "plot_registrations", "plot_abandon_vs_register_by_sido",
               csv.reg, plot_registrations_needs(csv.reg), {})
    /\ UNCHANGED sinks

PlotAbandonVsRegisterBySido ==
    /\ Routine("visualization", "plot_abandon_vs_register_by_sido",
               "plot_shelter_distribution",
               ({"ab"} \X csv.ab) \cup ({"reg"} \X csv.reg),
               ({"ab"} \X plot_abandon_vs_register_by_sido_needs[1])
                   \cup ({"reg"} \X plot_abandon_vs_register_by_sido_needs[2]),
               {})
    /\ UNCHANGED sinks

PlotShelterDistribution ==
    /\ Routine("visualization", "plot_shelter_distribution", "export_for_tableau",
               csv.sh, plot_shelter_distribution_needs(csv.sh),
               IF plot_shelter_distribution_needs(csv.sh) \subseteq csv.sh
               THEN plot_shelter_distribution_notes(csv.sh) ELSE {})
    /\ UNCHANGED sinks

ExportForTableau ==
    LET needs == export_for_tableau_needs(csv)
    IN Routine("visualization", "export_for_tableau", "done",
               ({"ab"} \X csv.ab) \cup ({"reg"} \X csv.reg) \cup ({"sh"} \X csv.sh),
               ({"ab"} \X needs[1]) \cup ({"reg"} \X needs[2])
                   \cup ({"sh"} \X needs[3]),
               {})
       /\ UNCHANGED sinks

Next ==
    \/ MainCleanAbandonments
    \/ MainCleanRegistrations
    \/ MainCleanShelters
    \/ MainMerge
    \/ MainSave
    \/ TwiceAbandonments
    \/ TwiceRegistrations
    \/ TwiceShelters
    \/ AnalysisLoadData
    \/ AnalyzeBasicPatterns
    \/ BuildAndEvaluateModel
    \/ AnalyzeTimeSeries
    \/ AnalyzeSpatial
    \/ AnalyzeCorrelations
    \/ AnalysisCloseLog
    \/ AnalysisExit
    \/ CallMain
    \/ CallAnalyzeBasicPatterns
    \/ CallBuildAndEvaluateModel
    \/ CallAnalyzeTimeSeries
    \/ CallAnalyzeSpatial
    \/ CallAnalyzeCorrelations
    \/ SetupEnv
    \/ VisualizationLoadData
    \/ PlotTimeSeriesAb
    \/ PlotHeatmapSidoMonthAb
    \/ PlotProcessState
    \/ PlotSpeciesDistribution
    \/ PlotRegistrations
    \/ PlotAbandonVsRegisterBySido
    \/ PlotShelterDistribution
    \/ ExportForTableau

Spec == Init /\ [][Next]_vars


(***************************************************************************)
(* Properties.                                                             *)
(***************************************************************************)

\* <<input row, cleaned row>> of every event record once clean_abandonments
\* has returned.
AbPairs ==
    IF ab_clean.st = "table" /\ Len(ab_clean.rows) = Len(ab.rows)
    THEN {<<ab.rows[i], ab_clean.rows[i]>> : i \in 1..Len(ab.rows)}
    ELSE {}

\* No explicit province in the input: no sido column, or a missing cell.
NoSido(r) == "sido" \notin ab.cols \/ isna(r.sido)

HasChar(s, c) == \E i \in 1..Len(s) : s[i] = c
\* A word: no bracket, no parenthesis, no whitespace, at least one character.
IsWord(s) ==
    /\ s # <<>>
    /\ \A i \in 1..Len(s) : s[i] \notin {"[", "]", "(", ")", " "}

\* The number a decimal numeral denotes: its integer and fraction digits.
Numeral(ip, fp) == Dec(IntOf(ip \o StripZeros(fp)), Len(StripZeros(fp)))

SeasonOfMonth ==
    <<Winter, Winter, Spring, Spring, Spring, Summer, Summer, Summer, Fall, Fall,
      Fall, Winter>>

\* The cleaned record of the end-to-end scenario.
C1_Example(in, out) ==
    (/\ in.happenDt = Str(ExampleDate)
     /\ get_raw(in.raw, "kindFullNm") = Str(ExampleKind)
     /\ get_raw(in.raw, "weight") = Str(ExampleWeight)
     /\ in.sexCd = Str(<<"F">>) /\ in.neuterYn = Str(<<"Y">>)
     /\ "ageRaw" \in ab.cols /\ in.ageRaw = Str(ExampleAge)
     /\ in.sigungu = Str(ExampleRegion) /\ NoSido(in))
    => /\ out.species = Str(<<"g">>)
       /\ out.breed = Str(<<"m", "i", "x">>)
       /\ out.sex = Str(Female)
       /\ out.neuter = Num(1)
       /\ out.weight = Dec(68, 1)
       /\ out.birthYear = Num(2016)
       /\ out.age = Num(now - 2016)
       /\ out.sido = Str(<<"S", "e", "o", "u", "l">>)
       /\ out.sigungu = Str(<<"G", "n", "g">>)
       /\ out.month = Num(6)
       /\ out.season = Str(Summer)

\* "[X] Y" with words X and Y gives species X and breed Y.
C1_Kind(in, out) ==
    LET v == get_raw(in.raw, "kindFullNm")
    IN isstr(v) =>
        \A k \in 1..Len(v.s) :
            LET X == SubSeq(v.s, 2, k - 1)
                Y == SubSeq(v.s, k + 2, Len(v.s))
            IN (/\ v.s[1] = "[" /\ v.s[k] = "]" /\ k + 1 <= Len(v.s)
                /\ v.s[k + 1] = " " /\ IsWord(X) /\ IsWord(Y))
               => out.species = Str(X) /\ out.breed = Str(Y)

\* "<number>(<unit>)" gives the number.
C1_Weight(in, out) ==
    LET v == get_raw(in.raw, "weight")
    IN isstr(v) =>
        \A k \in 1..Len(v.s), dot \in 0..Len(v.s) :
            LET ip == SubSeq(v.s, 1, IF dot = 0 THEN k - 1 ELSE dot - 1)
                fp == IF dot = 0 THEN <<>> ELSE SubSeq(v.s, dot + 1, k - 1)
                unit == SubSeq(v.s, k + 1, Len(v.s) - 1)
            IN (/\ v.s[k] = "(" /\ v.s[Len(v.s)] = ")" /\ k < Len(v.s)
                /\ ~HasChar(unit, "(") /\ ~HasChar(unit, ")")
                /\ dot < k /\ (dot # 0 => v.s[dot] = "." /\ fp # <<>>)
                /\ ip # <<>> /\ AllDigits(ip) /\ AllDigits(fp))
               => out.weight = Numeral(ip, fp)

\* Four digits and a suffix that starts with no digit give that birth year
\* and the years from it to the current year.
C1_Age(in, out) ==
    ("ageRaw" \in ab.cols /\ isstr(in.ageRaw)) =>
        LET s == in.ageRaw.s
        IN (/\ Len(s) >= 4 /\ AllDigits(SubSeq(s, 1, 4))
            /\ (Len(s) > 4 => ~IsDigit(s[5])))
           => /\ out.birthYear = Num(IntOf(SubSeq(s, 1, 4)))
              /\ out.age = Num(now - IntOf(SubSeq(s, 1, 4)))

\* Two words with whitespace between them give the province and the district.
C1_Region(in, out) ==
    isstr(in.sigungu) =>
        \A i, j \in 1..Len(in.sigungu.s) :
            LET A == SubSeq(in.sigungu.s, 1, i)
                gap == SubSeq(in.sigungu.s, i + 1, j - 1)
                B == SubSeq(in.sigungu.s, j, Len(in.sigungu.s))
            IN (/\ i + 1 < j /\ IsWord(A) /\ IsWord(B)
                /\ \A g \in 1..Len(gap) : IsSpace(gap[g]))
               => /\ NoSido(in) => out.sido = Str(A)
                  /\ out.sigungu = Str(B)

\* A calendar day written YYYYMMDD gives its month and the month's season.
C1_Date(in, out) ==
    (isstr(in.happenDt) /\ Len(in.happenDt.s) = 8 /\ AllDigits(in.happenDt.s)) =>
        LET y == IntOf(SubSeq(in.happenDt.s, 1, 4))
            m == IntOf(SubSeq(in.happenDt.s, 5, 6))
            d == IntOf(SubSeq(in.happenDt.s, 7, 8))
        IN (y \in TimestampYears /\ m \in 1..12 /\ d \in 1..DaysIn(y, m))
           => /\ out.happenDt = Date(y, m, d)
              /\ out.month = Num(m)
              /\ out.season = Str(SeasonOfMonth[m])

\* The known codes give their labels.
C1_Codes(in, out) ==
    /\ in.sexCd = Str(<<"M">>) => out.sex = Str(Male)
    /\ in.sexCd = Str(<<"F">>) => out.sex = Str(Female)
    /\ in.sexCd = Str(<<"Q">>) => out.sex = Str(Unknown)
    /\ in.neuterYn = Str(<<"Y">>) => out.neuter = Num(1)
    /\ in.neuterYn = Str(<<"N">>) => out.neuter = Num(0)

\* C1: clean_abandonments turns the record of the end-to-end scenario
\* (happenDt 20220615, kind "[g] mix", sex F, neuter Y, weight "6.8(Kg)", ageRaw
\* "2016(yb)", region "Seoul Gng") into species g, breed mix, sex Female, neuter
\* 1, weight 6.8, birthYear 2016, age = current year - 2016, sido Seoul, sigungu
\* Gng, month 6, season Summer; and every field of that shape (bracketed species
\* and a breed word, a known code, a number and a parenthesized unit, four
\* digits and a suffix, two region words, a calendar day YYYYMMDD) into the
\* value the shape denotes.
C1_WellFormedRow ==
    \A p \in AbPairs :
        /\ C1_Example(p[1], p[2])
        /\ C1_Kind(p[1], p[2])
        /\ C1_Weight(p[1], p[2])
        /\ C1_Age(p[1], p[2])
        /\ C1_Region(p[1], p[2])
        /\ C1_Date(p[1], p[2])
        /\ C1_Codes(p[1], p[2])

\* The scenario's record has been cleaned.
C1_Witness ==
    /\ ab = DefaultAb
    /\ ab_clean.st = "table"
    /\ ab_clean.rows[1].season = Str(Summer)
    /\ ab_clean.rows[1].weight = Dec(68, 1)

(***************************************************************************)
(* C2: composite species text.                                             *)
(***************************************************************************)

\* s reads "[X] Y": an opening bracket, X up to the first closing bracket at
\* k, whitespace, and Y from the first character that is no whitespace.
KindForm(s, k) ==
    /\ Len(s) > k /\ k >= 2
    /\ s[1] = "[" /\ s[k] = "]" /\ ~HasChar(SubSeq(s, 2, k - 1), "]")
    /\ IsSpace(s[k + 1])
KindX(s, k) == SubSeq(s, 2, k - 1)
KindY(s, k) == SubSeq(s, SkipSpaces(s, k + 1), Len(s))

HasBracketedToken(s) == MatchDelimited(s, "[", "]")[1] # 0

C2_Row(in, out) ==
    LET v == get_raw(in.raw, "kindFullNm")
    IN isstr(v) =>
        /\ \A k \in 1..Len(v.s) :
              KindForm(v.s, k) =>
                  out.species = Str(KindX(v.s, k)) /\ out.breed = Str(KindY(v.s, k))
        /\ ~HasBracketedToken(v.s) => isna(out.species) /\ out.breed = v

\* C2: for every composite text "[X] Y" the cleaned row has species X and breed
\* Y, and for every text with no bracketed token species is missing and breed
\* is the text unchanged.
C2_SpeciesAndBreed == \A p \in AbPairs : C2_Row(p[1], p[2])

(***************************************************************************)
(* C3: the event region text.                                              *)
(***************************************************************************)

C3_Row(in, out) ==
    IF isstr(in.sigungu)
    THEN LET parts == Split(in.sigungu.s)
         IN /\ Len(parts) >= 2 =>
                  /\ NoSido(in) => out.sido = Str(parts[1])
                  /\ out.sigungu = Str(parts[2])
            /\ Len(parts) = 1 =>
                  /\ NoSido(in) => out.sido = Str(parts[1])
                  /\ isna(out.sigungu)
    ELSE /\ NoSido(in) => isna(out.sido)
         /\ isna(out.sigungu)

\* C3: the region text is split on whitespace into sido = first token and
\* sigungu = second token; a region of exactly one token gives a missing
\* sigungu, and a region that is no text gives a missing sido and a missing
\* sigungu.
C3_RegionSplit == \A p \in AbPairs : C3_Row(p[1], p[2])

(***************************************************************************)
(* C4: region fields the input already holds.                              *)
(***************************************************************************)

\* <<input row, cleaned row>> of every shelter record once clean_shelters has
\* returned.
ShPairs ==
    IF sh_clean.st = "table" /\ Len(sh_clean.rows) = Len(sh.rows)
    THEN {<<sh.rows[i], sh_clean.rows[i]>> : i \in 1..Len(sh.rows)}
    ELSE {}

\* The value of column c in a row of a table with the columns cols, when the
\* table has the column and the cell is not missing.
Explicit(r, cols, c) == c \in cols /\ notna(r[c])

Kept(in, out, cols, c) == Explicit(in, cols, c) => out[c] = in[c]

\* Token n of a text, missing when the text has fewer tokens.
Token(s, n) == IF Len(Split(s)) >= n THEN Str(Split(s)[n]) ELSE None

\* C4: in clean_abandonments and in clean_shelters a sido or sigungu that holds
\* an explicit non-missing value in the input keeps that value in the output.
C4_ExplicitRegionKept ==
    /\ \A p \in AbPairs :
          Kept(p[1], p[2], ab.cols, "sido") /\ Kept(p[1], p[2], ab.cols, "sigungu")
    /\ \A p \in ShPairs :
          Kept(p[1], p[2], sh.cols, "sido") /\ Kept(p[1], p[2], sh.cols, "sigungu")

\* C4 (amended): in clean_abandonments an explicit non-missing sido is kept and
\* the first token of the region text is written to sido only when sido is
\* absent or missing; the event sigungu becomes the second token of the region
\* text whenever there is one; clean_shelters sets sido and sigungu to the
\* first and second token of careAddr rendered as text, whatever they held.
C4_OnlyEventSidoKept ==
    /\ \A p \in AbPairs :
          /\ Kept(p[1], p[2], ab.cols, "sido")
          /\ (~Explicit(p[1], ab.cols, "sido") /\ isstr(p[1].sigungu))
                => Same(p[2].sido, Token(p[1].sigungu.s, 1))
          /\ (isstr(p[1].sigungu) /\ Len(Split(p[1].sigungu.s)) >= 2)
                => p[2].sigungu = Token(p[1].sigungu.s, 2)
    /\ \A p \in ShPairs :
          /\ Same(p[2].sido, Token(AsStr(p[1].careAddr), 1))
          /\ Same(p[2].sigungu, Token(AsStr(p[1].careAddr), 2))

\* An explicit sido that is not the region's first token has been kept, and
\* a shelter's explicit sido has been replaced by its address's first token.
C4_Witness ==
    /\ prog = "clean_animals" /\ pc = "merge"
    /\ \E p \in AbPairs :
          /\ Explicit(p[1], ab.cols, "sido") /\ isstr(p[1].sigungu)
          /\ Len(Split(p[1].sigungu.s)) >= 2
          /\ p[1].sido # Token(p[1].sigungu.s, 1)
          /\ p[2].sido = p[1].sido
    /\ \E p \in ShPairs :
          /\ Explicit(p[1], sh.cols, "sido")
          /\ p[2].sido # p[1].sido

(***************************************************************************)
(* C5: age and birthYear.                                                  *)
(***************************************************************************)

\* A plausible birth year: four digits, not later than the current year.
Plausible(by) == notna(by) /\ by.n >= 1000 /\ by.n <= now

\* C5: after clean_abandonments age is not missing only when birthYear is a
\* plausible four-digit year, and then it is the current year minus birthYear
\* and not negative; with a missing or implausible birthYear (a year later
\* than the current year) age is missing.
C5_AgeOnlyForPlausibleYear ==
    \A p \in AbPairs :
        /\ notna(p[2].age) =>
              /\ Plausible(p[2].birthYear)
              /\ p[2].age = Num(now - p[2].birthYear.n)
              /\ p[2].age.n >= 0
        /\ ~Plausible(p[2].birthYear) => isna(p[2].age)

\* C5 (amended): after clean_abandonments age is not missing exactly when
\* birthYear is not missing, and then it is the current year minus birthYear,
\* whatever the year: negative when birthYear is later than the current year.
C5_AgeFollowsBirthYear ==
    \A p \in AbPairs :
        /\ isna(p[2].age) <=> isna(p[2].birthYear)
        /\ notna(p[2].birthYear) => p[2].age = Num(now - p[2].birthYear.n)

\* A record born in a year after the current one has been given its age.
C5_Witness ==
    \E p \in AbPairs :
        /\ notna(p[2].birthYear) /\ p[2].birthYear.n > now
        /\ notna(p[2].age) /\ p[2].age.n < 0

(***************************************************************************)
(* C6: derived fields are valid or missing.                                *)
(***************************************************************************)

RegPairs ==
    IF reg_clean.st = "table" /\ Len(reg_clean.rows) = Len(reg.rows)
    THEN {<<reg.rows[i], reg_clean.rows[i]>> : i \in 1..Len(reg.rows)}
    ELSE {}

\* The domains of the derived fields, each with the missing marker.
NumberOrMissing(v) == isna(v) \/ v.t = "num"
LabelOrMissing(v, labels) == isna(v) \/ (isstr(v) /\ v.s \in labels)
TextOrMissing(v) == isna(v) \/ isstr(v)
\* A region name parsed from a text: one token of it.
RegionOrMissing(v) ==
    isna(v) \/ (isstr(v) /\ v.s # <<>> /\ \A i \in 1..Len(v.s) : ~IsSpace(v.s[i]))

C6_Event(in, out) ==
    /\ TextOrMissing(out.species) /\ TextOrMissing(out.breed)
    /\ LabelOrMissing(out.sex, {Male, Female, Unknown})
    /\ isna(out.neuter) \/ out.neuter \in {Num(0), Num(1)}
    /\ NumberOrMissing(out.weight)
    /\ NumberOrMissing(out.birthYear) /\ NumberOrMissing(out.age)
    /\ NoSido(in) => RegionOrMissing(out.sido)
    /\ RegionOrMissing(out.sigungu)
    /\ isna(out.month) \/ (out.month.t = "num" /\ out.month.n \in 1..12)
    /\ LabelOrMissing(out.weekday, {DayNames[i] : i \in 1..7})
    /\ LabelOrMissing(out.season, {Spring, Summer, Fall, Winter})
    \* a missing source gives missing fields
    /\ in.raw.t # "dict" =>
          isna(out.species) /\ isna(out.breed) /\ isna(out.weight)
    /\ ("ageRaw" \in ab.cols /\ isna(in.ageRaw)) =>
          isna(out.birthYear) /\ isna(out.age)
    /\ isna(in.sigungu) => isna(out.sigungu) /\ (NoSido(in) => isna(out.sido))
    /\ isna(in.happenDt) =>
          isna(out.month) /\ isna(out.weekday) /\ isna(out.season)

C6_Registration(in, out) ==
    NumberOrMissing(out.count) /\ NumberOrMissing(out.birthYear)

C6_Shelter(in, out) ==
    /\ RegionOrMissing(out.sido) /\ RegionOrMissing(out.sigungu)
    /\ isna(in.careAddr) => isna(out.sido) /\ isna(out.sigungu)

\* C6: after the three cleaners every derived field of every row is a valid
\* value of its domain or the missing marker, and never a fragment of an
\* unparsed input or the textual rendering of a missing input.
C6_DerivedValidOrMissing ==
    /\ \A p \in AbPairs : C6_Event(p[1], p[2])
    /\ \A p \in RegPairs : C6_Registration(p[1], p[2])
    /\ \A p \in ShPairs : C6_Shelter(p[1], p[2])

(***************************************************************************)
(* C7: the join of events with shelters.                                   *)
(***************************************************************************)

\* The shelter rows whose careNm is the event's: the same text.
SameName(e) ==
    {j \in 1..Len(sh_clean.rows) :
        notna(e.careNm) /\ sh_clean.rows[j].careNm = e.careNm}

\* The result rows of the event e, which its uid tells apart from the others'.
ResultRows(e) == {m \in 1..Len(ab_merged.rows) : ab_merged.rows[m].uid = e.uid}

DistinctUids ==
    /\ "uid" \in ab_clean.cols
    /\ \A i, j \in 1..Len(ab_clean.rows) :
          i # j => ab_clean.rows[i].uid # ab_clean.rows[j].uid

C7_Event(e) ==
    LET k == Cardinality(SameName(e))
    IN /\ Cardinality(ResultRows(e)) = IF k >= 2 THEN k ELSE 1
       /\ k = 0 =>
             \A m \in ResultRows(e) :
                 /\ \A c \in ab_clean.cols : ab_merged.rows[m][c] = e[c]
                 /\ \A c \in ShelterFields : isna(ab_merged.rows[m][c])

\* C7: the join is a left join on equality of careNm: every event row is in the
\* result once when at most one shelter row has its careNm and k times when
\* k >= 2 shelter rows have it, none is dropped, and an event row no shelter
\* row matches, a row with a missing careNm included, keeps its values and has
\* every shelter field missing.
C7_LeftJoin ==
    (ab_merged.st = "table" /\ DistinctUids) =>
        \A i \in 1..Len(ab_clean.rows) : C7_Event(ab_clean.rows[i])

(***************************************************************************)
(* C8: the cleaners applied to their own result.                           *)
(***************************************************************************)

AbCompared ==
    {"happenDt", "species", "breed", "sex", "neuter", "weight", "birthYear", "age",
     "sido", "sigungu", "month", "weekday", "season"}

\* The second result has the rows of the first, with the same values in the
\* columns cs.
SameOn(once, again, cs) ==
    once.st = "table" =>
        /\ again.st = "table"
        /\ Len(again.rows) = Len(once.rows)
        /\ \A i \in 1..Len(once.rows) :
              \A c \in cs : Same(again.rows[i][c], once.rows[i][c])

\* C8: clean_abandonments applied to its own result gives the happenDt,
\* species, breed, sex, neuter, weight, birthYear, age, sido, sigungu, month,
\* weekday and season of the first application (within one calendar year), and
\* clean_registrations and clean_shelters applied twice give the derived
\* fields of one application.
C8_Idempotent ==
    prog = "normalize_twice" =>
        /\ SameOn(ab_clean, ab_twice, AbCompared)
        /\ SameOn(reg_clean, reg_twice, RegCanonical)
        /\ SameOn(sh_clean, sh_twice, ShDerived)

\* The three cleaners have run twice on the example records, and the district
\* of the first pass is the district of the second.
C8_Witness ==
    /\ prog = "normalize_twice" /\ pc = "done"
    /\ ab_twice.st = "table" /\ reg_twice.st = "table" /\ sh_twice.st = "table"
    /\ ab.rows[1].sigungu = Str(ExampleRegion)
    /\ ab_clean.rows[1].sigungu = Str(<<"G", "n", "g">>)
    /\ ab_twice.rows[1].sigungu = Str(<<"G", "n", "g">>)
    /\ ab_twice.rows[1].happenDt = Date(2022, 6, 15)

(***************************************************************************)
(* C9: malformed and absent fields.                                        *)
(***************************************************************************)

\* The call of clean_abandonments has ended, by a return or by an exception.
AbCalled == ab_clean.st # "unset"

C9_Row(in, out) ==
    /\ in.sexCd \notin {Str(<<"M">>), Str(<<"F">>), Str(<<"Q">>)} => isna(out.sex)
    /\ in.neuterYn \notin {Str(<<"Y">>), Str(<<"N">>)} => isna(out.neuter)
    /\ to_datetime(in.happenDt).t # "date" =>
          /\ isna(out.happenDt) /\ isna(out.month)
          /\ isna(out.weekday) /\ isna(out.season)
    /\ in.raw.t # "dict" => isna(out.species) /\ isna(out.breed) /\ isna(out.weight)
    /\ ("ageRaw" \notin ab.cols \/ isna(in.ageRaw)) => isna(out.birthYear)
    \* the other fields are derived as usual
    /\ C1_Kind(in, out) /\ C1_Weight(in, out) /\ C1_Age(in, out)
    /\ C1_Region(in, out) /\ C1_Date(in, out) /\ C1_Codes(in, out)

\* C9: clean_abandonments never raises because of one field: whatever happenDt,
\* sexCd, neuterYn, ageRaw, sigungu or raw hold, or when one of them is absent,
\* the call returns one row per input row, in which only the fields derived
\* from the bad value are missing.
C9_NeverRaises ==
    (AbCalled /\ ab.rows # <<>>) =>
        /\ ab_clean.st = "table"
        /\ Len(ab_clean.rows) = Len(ab.rows)
        /\ \A p \in AbPairs : C9_Row(p[1], p[2])

(***************************************************************************)
(* C10: absent columns in the Analyzer and the Visualizer.                 *)
(***************************************************************************)

OptionalColumns ==
    {"year", "month", "season", "sido", "sigungu", "sex", "neuter", "species",
     "age", "weight", "uid", "orgNm", "lat", "lng", "birthYear"}

\* The columns the loaded tables lack.
AbsentColumns ==
    (CsvAbCols \ csv.ab) \cup (CsvRegCols \ csv.reg) \cup (CsvShCols \ csv.sh)

\* C10: in the Analyzer and the Visualizer a routine that depends on an absent
\* optional column is skipped with a notice and the run goes on to the other
\* routines: an absent optional column never makes the run fail.
C10_AbsentColumnSkipped ==
    (prog \in ReportProgs /\ AbsentColumns \subseteq OptionalColumns) =>
        pc # "raised"

(***************************************************************************)
(* C11: canonical columns and the raw payload of a registration.           *)
(***************************************************************************)

RegNumeric == {"birthYear", "count"}

\* out is the cell v, coerced to a number where the column is numeric: a
\* number stays, a text of digits is its number, a missing or invalid value
\* is missing.
CellOf(c, v, out) ==
    IF c \in RegNumeric
    THEN /\ NumberOrMissing(out)
         /\ v.t = "num" => out = v
         /\ (isstr(v) /\ v.s # <<>> /\ AllDigits(v.s)) => out = Num(IntOf(v.s))
         /\ (isna(v) \/ (isstr(v) /\ \E i \in 1..Len(v.s) : v.s[i] = "x")) => isna(out)
    ELSE Same(out, v)

\* The value of the raw key of column c, missing when raw is no dictionary or
\* has no such key.
RawValue(r, c) ==
    IF r.raw.t = "dict" /\ RegRawKey[c] \in DOMAIN r.raw.kv
    THEN r.raw.kv[RegRawKey[c]] ELSE None

\* C11: in every table clean_registrations returns (a table that lacks a
\* canonical column has the raw column), it keeps a canonical column the
\* table has (count and birthYear coerced to numbers, invalid values missing)
\* and does not read raw
\* for it, even in a row whose cell is missing; a canonical column the table
\* lacks gets, in every row, the value of its raw key CTPV, SGG, BRDT, RFID_SE,
\* LVSTCK_KND, SPCS or CNT (coerced likewise), missing when raw is no
\* dictionary or lacks the key.
C11_BackfillOnlyAbsentColumns ==
    \A p \in RegPairs : \A c \in RegCanonical :
        IF c \in reg.cols THEN CellOf(c, p[1][c], p[2][c])
        ELSE CellOf(c, RawValue(p[1], c), p[2][c])

\* The record with no canonical column and the raw keys CTPV, SGG, BRDT and
\* CNT has been cleaned.
C11_Witness ==
    /\ reg.cols = {"raw"} /\ reg.rows[1].raw = RegRaw
    /\ reg_clean.st = "table"
    /\ reg_clean.rows[1].sido = Str(<<"S">>)
    /\ reg_clean.rows[1].sigungu = Str(<<"G">>)
    /\ reg_clean.rows[1].birthYear = Num(2019)
    /\ reg_clean.rows[1].count = Num(3)

(***************************************************************************)
(* C12: the Tee.                                                           *)
(***************************************************************************)

\* C12: in the Analyzer, from the installation of the Tee to the end of the
\* run, every write of every print reaches the interactive stream and the log
\* file with the same data in the same order, and no write or flush is issued
\* to the log file after it has been closed.
C12_BothSinksUntilTheEnd ==
    prog = "analysis_model" =>
        /\ sinks.console = sinks.log
        /\ sinks.late = {}

(***************************************************************************)
(* C13: the log file and the store connection.                             *)
(***************************************************************************)

\* The run of the entry point has ended, by its return or by an exception.
AnalyzerEnded == prog = "analysis_model" /\ pc = "exited"
PipelineEnded == prog = "clean_animals" /\ pc \in {"done", "raised"}

\* C13: every resource a run acquires is released in that run: when the
\* Analyzer ends, by completion or by a routine's exception, the log file is
\* closed, and when the cleaning pipeline's main ends, the connection that
\* get_mongo_db opened is closed.
C13_ResourcesReleased ==
    /\ AnalyzerEnded => sinks.log_file = "closed"
    /\ PipelineEnded => client = "closed"

(***************************************************************************)
(* C14: the Analyzer's routines called one by one.                         *)
(***************************************************************************)

\* The columns the routine of that name reads from a table with these columns.
NeedsOf(name, cols) ==
    CASE name = "analyze_basic_patterns" -> analyze_basic_patterns_needs(cols)
      [] name = "build_and_evaluate_model" -> build_and_evaluate_model_needs(cols)
      [] name = "analyze_time_series" -> analyze_time_series_needs(cols)
      [] name = "analyze_spatial" -> analyze_spatial_needs(cols)
      [] name = "analyze_correlations" -> analyze_correlations_needs(cols)

\* The caller's last call was of a routine whose columns the table has.
LastCallServed ==
    /\ calls # <<>>
    /\ NeedsOf(calls[Len(calls)], given.cols) \subseteq given.cols
MainHasRun == sinks.log_file = "closed"

\* C14: whatever routines of the Analyzer a caller invokes on a table, in any
\* order, any number of times, before or after main() has run, a call whose
\* columns the table has returns, and after every call the table has the rows,
\* columns and values the caller built.
C14_RoutinesIndependent ==
    prog = "analyzer_calls" =>
        /\ LastCallServed => pc # "raised"
        /\ table = given

====
